---- MODULE Spec2Model ----
(***************************************************************************)
(* Model of scripts/analyze_framework.py: the FrameworkAnalyzer's          *)
(* regular-expression extractors, its brace scan, and the two passes       *)
(* (print_tree, generate_summary) that main runs over the source files.    *)
(*                                                                         *)
(* A text is a sequence of one-character strings; offsets are Python's     *)
(* (0-based), so the character at offset i is text[i + 1].                 *)
(***************************************************************************)
EXTENDS Integers, Sequences, FiniteSets, TLC

VARIABLES
    pc,             \* position of the running operation
    argv,           \* kind of the command-line path argument (main)
    files,          \* the source files the walk yields: sequence of file ids
    idx,            \* number of files the current pass has handled
    tree,           \* print_tree: what _analyze_and_print_file got per file
    total_files,    \* generate_summary locals
    total_classes,
    total_functions,
    total_imports,
    folded,         \* generate_summary: files whose try block ran to its end
    stdout,         \* the report sections printed so far
    exit_code,      \* process exit status, -1 while running
    input,          \* what the text under analysis was put together from
    content,        \* the text under analysis
    imports,        \* result of _extract_imports(content)
    classes,        \* result of _extract_classes(content)
    scans,          \* _extract_classes: name, class_start, class_end, class_body per match
    functions,      \* result of _extract_functions(content)
    methods         \* result of _extract_class_methods(content)

vars == <<pc, argv, files, idx, tree, total_files, total_classes, total_functions,
          total_imports, folded, stdout, exit_code, input, content, imports,
          classes, scans, functions, methods>>

(***************************************************************************)
(* Characters and the character classes of Python's re module.             *)
(***************************************************************************)
Lower == {"a", "b", "c", "d", "e", "f", "g", "h", "i", "j", "k", "l", "m", "n", "o", "p", "q", "r", "s", "t", "u", "v", "w", "x", "y", "z"}
Upper == {"A", "B", "C", "D", "E", "F", "G", "H", "I", "J", "K", "L", "M", "N", "O", "P", "Q", "R", "S", "T", "U", "V", "W", "X", "Y", "Z"}
Digit == {"0", "1", "2", "3", "4", "5", "6", "7", "8", "9"}
\* \w
WordChars == Lower \cup Upper \cup Digit \cup {"_"}
\* \s
Whitespace == {" ", "\t", "\n", "\r", "\f"}
\* ['\"]
Quotes == {"'", "\""}

K_import == <<"i","m","p","o","r","t">>
K_from == <<"f","r","o","m">>
K_as == <<"a","s">>
K_class == <<"c","l","a","s","s">>
K_export == <<"e","x","p","o","r","t">>
K_abstract == <<"a","b","s","t","r","a","c","t">>
K_async == <<"a","s","y","n","c">>
K_public == <<"p","u","b","l","i","c">>
K_private == <<"p","r","i","v","a","t","e">>
K_protected == <<"p","r","o","t","e","c","t","e","d">>
K_function == <<"f","u","n","c","t","i","o","n">>
K_const == <<"c","o","n","s","t">>
K_void == <<"v","o","i","d">>
K_Promise == <<"P","r","o","m","i","s","e">>
K_any == <<"a","n","y">>
K_interface == <<"i","n","t","e","r","f","a","c","e">>
K_type == <<"t","y","p","e">>
K_constructor == <<"c","o","n","s","t","r","u","c","t","o","r">>
K_if == <<"i","f">>
K_for == <<"f","o","r">>
K_while == <<"w","h","i","l","e">>
K_switch == <<"s","w","i","t","c","h">>
K_arrow == <<"=",">">>

(***************************************************************************)
(* Regular expressions as Python's re matches them: backtracking, the      *)
(* alternatives tried left to right, every quantifier greedy.              *)
(***************************************************************************)
Lit(s) == [t |-> "lit", s |-> s]
In(S) == [t |-> "in", c |-> S]
NotIn(S) == [t |-> "notin", c |-> S]
Star(n) == [t |-> "star", n |-> n]
Plus(n) == [t |-> "plus", n |-> n]
Opt(n) == [t |-> "opt", n |-> n]
Alt(ns) == [t |-> "alt", ns |-> ns]
Cat(ns) == [t |-> "cat", ns |-> ns]

\* Whether the character at offset pos belongs to the class n.
ClassAt(n, text, pos) ==
    /\ pos < Len(text)
    /\ IF n.t = "in" THEN text[pos + 1] \in n.c ELSE text[pos + 1] \notin n.c

\* The number of consecutive characters of class n from offset pos on.
RECURSIVE Run(_, _, _)
Run(n, text, pos) ==
    IF ClassAt(n, text, pos) THEN 1 + Run(n, text, pos + 1) ELSE 0

\* <<hi, hi - 1, ..., lo>>: a greedy quantifier gives back one character at a time.
Descending(hi, lo) == [k \in 1..(hi - lo + 1) |-> hi + 1 - k]

\* The offsets at which a match of n that starts at pos can end, in the
\* order the backtracking matcher tries them.
RECURSIVE Ends(_, _, _)
RECURSIVE EndsCat(_, _, _, _)
RECURSIVE EndsEach(_, _, _, _, _)
RECURSIVE EndsAlt(_, _, _, _)
Ends(n, text, pos) ==
    CASE n.t = "lit" ->
           IF /\ pos + Len(n.s) <= Len(text)
              /\ \A k \in 1..Len(n.s) : text[pos + k] = n.s[k]
           THEN <<pos + Len(n.s)>> ELSE <<>>
      [] n.t \in {"in", "notin"} ->
           IF ClassAt(n, text, pos) THEN <<pos + 1>> ELSE <<>>
      [] n.t = "star" -> Descending(pos + Run(n.n, text, pos), pos)
      [] n.t = "plus" -> Descending(pos + Run(n.n, text, pos), pos + 1)
      [] n.t = "opt" -> Ends(n.n, text, pos) \o <<pos>>
      [] n.t = "alt" -> EndsAlt(n.ns, text, pos, 1)
      [] n.t = "cat" -> EndsCat(n.ns, 1, text, pos)
\* The parts ns[j], ns[j + 1], ... one after the other, from pos.
EndsCat(ns, j, text, pos) ==
    IF j > Len(ns) THEN <<pos>>
    ELSE EndsEach(ns, j + 1, text, Ends(ns[j], text, pos), 1)
EndsEach(ns, j, text, starts, k) ==
    IF k > Len(starts) THEN <<>>
    ELSE EndsCat(ns, j, text, starts[k]) \o EndsEach(ns, j, text, starts, k + 1)
EndsAlt(ns, text, pos, k) ==
    IF k > Len(ns) THEN <<>>
    ELSE Ends(ns[k], text, pos) \o EndsAlt(ns, text, pos, k + 1)

\* A pattern with one capturing group: pre (group) post.
Pattern(pre, grp, post) == [pre |-> pre, grp |-> grp, post |-> post]
NoMatch == [start |-> -1, end |-> -1, group1 |-> <<>>]

\* The first way, in backtracking order, to match p at offset s.
RECURSIVE TryPost(_, _, _, _, _, _)
TryPost(p, text, s, gs, ges, k) ==
    IF k > Len(ges) THEN NoMatch
    ELSE LET es == Ends(p.post, text, ges[k])
         IN IF es # <<>>
            THEN [start |-> s, end |-> es[1], group1 |-> SubSeq(text, gs + 1, ges[k])]
            ELSE TryPost(p, text, s, gs, ges, k + 1)
RECURSIVE TryGroup(_, _, _, _, _)
TryGroup(p, text, s, gss, k) ==
    IF k > Len(gss) THEN NoMatch
    ELSE LET m == TryPost(p, text, s, gss[k], Ends(p.grp, text, gss[k]), 1)
         IN IF m.start # -1 THEN m ELSE TryGroup(p, text, s, gss, k + 1)
MatchAt(p, text, s) == TryGroup(p, text, s, Ends(p.pre, text, s), 1)

\* re.finditer: the non-overlapping matches of p in text from offset pos on,
\* leftmost first.
RECURSIVE finditer(_, _, _)
finditer(p, text, pos) ==
    IF pos > Len(text) THEN <<>>
    ELSE LET m == MatchAt(p, text, pos)
         IN IF m.start = -1 THEN finditer(p, text, pos + 1)
            ELSE <<m>> \o finditer(p, text, IF m.end > pos THEN m.end ELSE pos + 1)

S1 == Plus(In(Whitespace))
S0 == Star(In(Whitespace))
W1 == Plus(In(WordChars))

(***************************************************************************)
(* The patterns of the extractors.                                         *)
(***************************************************************************)
\* import\s+(?:{[^}]+}|\*\s+as\s+\w+|\w+)\s+from\s+['\"]([^'\"]+)['\"]
import_pattern ==
    Pattern(Cat(<<Lit(K_import), S1,
                  Alt(<<Cat(<<Lit(<<"{">>), Plus(NotIn({"}"})), Lit(<<"}">>)>>),
                        Cat(<<Lit(<<"*">>), S1, Lit(K_as), S1, W1>>),
                        W1>>),
                  S1, Lit(K_from), S1, In(Quotes)>>),
            Plus(NotIn(Quotes)),
            In(Quotes))

\* import\s+['\"]([^'\"]+)['\"]
import_pattern2 ==
    Pattern(Cat(<<Lit(K_import), S1, In(Quotes)>>), Plus(NotIn(Quotes)), In(Quotes))

\* (?:export\s+)?(?:abstract\s+)?class\s+(\w+)
simple_class_pattern ==
    Pattern(Cat(<<Opt(Cat(<<Lit(K_export), S1>>)), Opt(Cat(<<Lit(K_abstract), S1>>)),
                  Lit(K_class), S1>>),
            W1,
            Cat(<<>>))

\* (?:async\s+)?(?:public\s+|private\s+|protected\s+)?(\w+)\s*\([^)]*\)\s*(?::\s*[^{]+)?\s*{
method_pattern ==
    Pattern(Cat(<<Opt(Cat(<<Lit(K_async), S1>>)),
                  Opt(Alt(<<Cat(<<Lit(K_public), S1>>), Cat(<<Lit(K_private), S1>>),
                            Cat(<<Lit(K_protected), S1>>)>>))>>),
            W1,
            Cat(<<S0, Lit(<<"(">>), Star(NotIn({")"})), Lit(<<")">>), S0,
                  Opt(Cat(<<Lit(<<":">>), S0, Plus(NotIn({"{"}))>>)),
                  S0, Lit(<<"{">>)>>))

\* (?:export\s+)?(?:async\s+)?function\s+(\w+)\s*\(
function_pattern1 ==
    Pattern(Cat(<<Opt(Cat(<<Lit(K_export), S1>>)), Opt(Cat(<<Lit(K_async), S1>>)),
                  Lit(K_function), S1>>),
            W1,
            Cat(<<S0, Lit(<<"(">>)>>))

\* (?:export\s+)?const\s+(\w+)\s*=\s*(?:async\s+)?(?:function|\([^)]*\)\s*=>)
function_pattern2 ==
    Pattern(Cat(<<Opt(Cat(<<Lit(K_export), S1>>)), Lit(K_const), S1>>),
            W1,
            Cat(<<S0, Lit(<<"=">>), S0, Opt(Cat(<<Lit(K_async), S1>>)),
                  Alt(<<Lit(K_function),
                        Cat(<<Lit(<<"(">>), Star(NotIn({")"})), Lit(<<")">>), S0,
                              Lit(K_arrow)>>)>>)>>))

\* (?:export\s+)?const\s+(\w+):\s*\([^)]*\)\s*=>\s*(?:void|Promise|any|[A-Z]\w*)
function_pattern3 ==
    Pattern(Cat(<<Opt(Cat(<<Lit(K_export), S1>>)), Lit(K_const), S1>>),
            W1,
            Cat(<<Lit(<<":">>), S0, Lit(<<"(">>), Star(NotIn({")"})), Lit(<<")">>), S0,
                  Lit(K_arrow), S0,
                  Alt(<<Lit(K_void), Lit(K_Promise), Lit(K_any),
                        Cat(<<In(Upper), Star(In(WordChars))>>)>>)>>))

function_patterns == <<function_pattern1, function_pattern2, function_pattern3>>

\* (?:export\s+)?interface\s+(\w+)
interface_pattern ==
    Pattern(Cat(<<Opt(Cat(<<Lit(K_export), S1>>)), Lit(K_interface), S1>>), W1, Cat(<<>>))

\* (?:export\s+)?type\s+(\w+)
type_pattern ==
    Pattern(Cat(<<Opt(Cat(<<Lit(K_export), S1>>)), Lit(K_type), S1>>), W1, Cat(<<>>))

\* The strings a sequence of matches captured, in order.
Groups(ms) == [k \in 1..Len(ms) |-> ms[k].group1]
Range(s) == {s[k] : k \in 1..Len(s)}

(***************************************************************************)
(* The extractors.                                                         *)
(***************************************************************************)
\* imports.append(...) under "if match.group(1) not in imports"
RECURSIVE AppendNew(_, _, _)
AppendNew(list, ms, k) ==
    IF k > Len(ms) THEN list
    ELSE AppendNew(IF ms[k].group1 \in Range(list) THEN list
                   ELSE Append(list, ms[k].group1), ms, k + 1)

\* Both loops appending every match.
ExtractImportsAppendAll(text) ==
    Groups(finditer(import_pattern, text, 0)) \o Groups(finditer(import_pattern2, text, 0))

_extract_imports(text) ==
    AppendNew(Groups(finditer(import_pattern, text, 0)),
              finditer(import_pattern2, text, 0), 1)

\* The names a method match may not report.
MethodExcluded == {K_constructor, K_if, K_for, K_while, K_switch}
FunctionExcluded == {K_if, K_for, K_while, K_switch}

\* list(set(methods)): the names, duplicates removed, in no particular order.
_extract_class_methods(class_body) ==
    {m.group1 : m \in Range(finditer(method_pattern, class_body, 0))} \ MethodExcluded

\* The scan with class_end left at the end of the text when no brace closes.
RECURSIVE ScanBracesToEnd(_, _, _, _)
ScanBracesToEnd(text, class_start, i, brace_count) ==
    IF i >= Len(text) THEN Len(text)
    ELSE IF text[i + 1] = "{" THEN ScanBracesToEnd(text, class_start, i + 1, brace_count + 1)
    ELSE IF text[i + 1] = "}"
         THEN IF brace_count - 1 = -1 THEN i
              ELSE ScanBracesToEnd(text, class_start, i + 1, brace_count - 1)
    ELSE ScanBracesToEnd(text, class_start, i + 1, brace_count)

\* The brace scan of _extract_classes: class_end, which stays class_start
\* when the scan reaches the end of the text.
RECURSIVE ScanBraces(_, _, _, _)
ScanBraces(text, class_start, i, brace_count) ==
    IF i >= Len(text) THEN class_start
    ELSE IF text[i + 1] = "{" THEN ScanBraces(text, class_start, i + 1, brace_count + 1)
    ELSE IF text[i + 1] = "}"
         THEN IF brace_count - 1 = -1 THEN i
              ELSE ScanBraces(text, class_start, i + 1, brace_count - 1)
    ELSE ScanBraces(text, class_start, i + 1, brace_count)

ClassEnd(text, class_start) == ScanBraces(text, class_start, class_start, 0)

\* content[class_start:class_end] if class_end > class_start else ""
ClassBody(text, class_start, class_end) ==
    IF class_end > class_start THEN SubSeq(text, class_start + 1, class_end) ELSE <<>>

\* The locals of one turn of the loop over the matches of simple_class_pattern.
ScanOf(text, match) ==
    LET class_start == match.end
        class_end == ClassEnd(text, class_start)
        class_body == ClassBody(text, class_start, class_end)
    IN [class_name |-> match.group1,
        class_start |-> class_start,
        class_end |-> class_end,
        class_body |-> class_body,
        methods |-> _extract_class_methods(class_body)]

\* The loop run for the first match only.
ClassScansFirstOnly(text) ==
    LET ms == finditer(simple_class_pattern, text, 0)
    IN [k \in 1..(IF Len(ms) > 0 THEN 1 ELSE 0) |-> ScanOf(text, ms[k])]

\* One record per match of simple_class_pattern, in text order.
ClassScans(text) ==
    LET ms == finditer(simple_class_pattern, text, 0)
    IN [k \in 1..Len(ms) |-> ScanOf(text, ms[k])]

\* classes[class_name] = methods: a later match of the same name overwrites.
LastOf(sc, name) == CHOOSE k \in 1..Len(sc) :
    /\ sc[k].class_name = name
    /\ \A j \in (k + 1)..Len(sc) : sc[j].class_name # name

ClassDict(sc) ==
    [name \in {sc[k].class_name : k \in 1..Len(sc)} |-> sc[LastOf(sc, name)].methods]

_extract_classes(text) == ClassDict(ClassScans(text))

RECURSIVE FunctionNames(_, _)
FunctionNames(text, k) ==
    IF k > Len(function_patterns) THEN {}
    ELSE {m.group1 : m \in Range(finditer(function_patterns[k], text, 0))}
         \cup FunctionNames(text, k + 1)

\* The function matchers run on the text with every resolved class body blanked.
FunctionsOutsideClasses(text) ==
    LET sc == ClassScans(text)
        inBody(i) == \E k \in 1..Len(sc) : sc[k].class_start < i /\ i <= sc[k].class_end
    IN FunctionNames([i \in 1..Len(text) |-> IF inBody(i) THEN " " ELSE text[i]], 1)
       \ FunctionExcluded

\* list(set(functions))
_extract_functions(text) == FunctionNames(text, 1) \ FunctionExcluded

\* "interface <name>" entries, then "type <name>" entries.
_extract_interfaces(text) ==
    LET is == Groups(finditer(interface_pattern, text, 0))
        ts == Groups(finditer(type_pattern, text, 0))
    IN [k \in 1..Len(is) |-> <<"interface", is[k]>>]
       \o [k \in 1..Len(ts) |-> <<"type", ts[k]>>]

(***************************************************************************)
(* The program: main, print_tree and generate_summary over the source      *)
(* files the directory walk yields.                                        *)
(***************************************************************************)
\* self.file_extensions
file_extensions == {".ts", ".js", ".tsx", ".jsx"}

\* Files a project may hold.  text is what read_text returns; an unreadable
\* file makes read_text raise.
Text_OneClass == <<"i","m","p","o","r","t"," ","{"," ","A"," ","}"," ","f","r","o","m"," ","\"","m","o","d","1","\"",";"," ","i","m","p","o","r","t"," ","\"","m","o","d","2","\"",";"," ","c","l","a","s","s"," ","F","o","o"," ","{"," ","b","a","r","(",")"," ","{"," ","}"," ","}">>
Text_Truncated == <<"i","m","p","o","r","t"," ","\"","m","o","d","2","\"",";"," ","c","l","a","s","s"," ","B","a","r"," ","{"," ","r","u","n","(",")"," ","{"," ","i","f"," ","(","x",")"," ","{">>
Text_TwoClasses == <<"c","l","a","s","s"," ","A"," ","{"," ","}"," ","c","l","a","s","s"," ","B"," ","{"," ","}"," ","c","o","n","s","t"," ","g"," ","="," ","(",")"," ","=",">"," ","1">>

FileTable == <<
    [suffix |-> ".ts", readable |-> TRUE, text |-> Text_OneClass],
    [suffix |-> ".ts", readable |-> TRUE, text |-> Text_Truncated],
    [suffix |-> ".js", readable |-> FALSE, text |-> <<>>],
    [suffix |-> ".json", readable |-> TRUE, text |-> <<>>],
    [suffix |-> ".tsx", readable |-> TRUE, text |-> Text_TwoClasses] >>

FileIds == DOMAIN FileTable
MaxFiles == 3
FileLists == UNION {[1..n -> FileIds] : n \in 0..MaxFiles}

\* sys.argv[1]: absent, a path that does not exist, a path that is no
\* directory, a directory.
ArgKinds == {"none", "missing", "file", "dir"}

IsSource(f) == FileTable[f].suffix \in file_extensions

\* The try block of _analyze_and_print_file: what it extracts from the text.
Analysis(text) ==
    [status |-> "ok",
     imports |-> _extract_imports(text),
     classes |-> _extract_classes(text),
     functions |-> _extract_functions(text),
     interfaces |-> _extract_interfaces(text)]

\* What the extractors return for each file's text.
Extracted == [f \in FileIds |-> Analysis(FileTable[f].text)]

\* _analyze_and_print_file: the except clause catches what read_text raises.
_analyze_and_print_file(f) ==
    IF FileTable[f].readable THEN Extracted[f]
    ELSE [status |-> "error"]

\* "if imports or classes or functions or interfaces"
PrintsDetails(r) ==
    /\ r.status = "ok"
    /\ \/ r.imports # <<>>
       \/ DOMAIN r.classes # {}
       \/ r.functions # {}
       \/ r.interfaces # <<>>

Idle == UNCHANGED <<input, content, imports, classes, scans, functions, methods>>

\* main without the is_dir test.
MainStartNoDirCheck ==
    /\ pc = "main"
    /\ IF argv = "missing"
       THEN /\ stdout' = Append(stdout, "error: does not exist")
            /\ exit_code' = 1
            /\ pc' = "exited"
       ELSE /\ stdout' = stdout \o <<"banner", "tree header">>
            /\ exit_code' = exit_code
            /\ pc' = "print_tree"
    /\ UNCHANGED <<argv, files, idx, tree, total_files, total_classes,
                   total_functions, total_imports, folded>>
    /\ Idle

\* main, up to the call of print_tree.
MainStart ==
    /\ pc = "main"
    /\ IF argv = "missing"
       THEN /\ stdout' = Append(stdout, "error: does not exist")
            /\ exit_code' = 1
            /\ pc' = "exited"
       ELSE IF argv = "file"
       THEN /\ stdout' = Append(stdout, "error: not a directory")
            /\ exit_code' = 1
            /\ pc' = "exited"
       ELSE /\ stdout' = stdout \o <<"banner", "tree header">>
            /\ exit_code' = exit_code
            /\ pc' = "print_tree"
    /\ UNCHANGED <<argv, files, idx, tree, total_files, total_classes,
                   total_functions, total_imports, folded>>
    /\ Idle

\* print_tree with no except clause in _analyze_and_print_file: what
\* read_text raises ends the process.
PrintTreeEntryNoCatch ==
    /\ pc = "print_tree"
    /\ idx < Len(files)
    /\ LET f == files[idx + 1]
       IN IF IsSource(f) /\ ~FileTable[f].readable
          THEN /\ pc' = "exited"
               /\ exit_code' = 1
               /\ stdout' = Append(stdout, "traceback")
               /\ UNCHANGED <<tree, idx>>
          ELSE LET r == IF IsSource(f) THEN Extracted[f] ELSE [status |-> "not analyzed"]
               IN /\ tree' = Append(tree, r)
                  /\ stdout' = stdout \o <<"entry">>
                  /\ idx' = idx + 1
                  /\ UNCHANGED <<pc, exit_code>>
    /\ UNCHANGED <<argv, files, total_files, total_classes, total_functions,
                   total_imports, folded>>
    /\ Idle

\* print_tree: one entry of the directory listing.
PrintTreeEntry ==
    /\ pc = "print_tree"
    /\ idx < Len(files)
    /\ LET f == files[idx + 1]
           r == IF IsSource(f) THEN _analyze_and_print_file(f)
                ELSE [status |-> "not analyzed"]
       IN /\ tree' = Append(tree, r)
          /\ stdout' = stdout \o <<"entry">>
                \o (IF r.status = "error" THEN <<"error analyzing file">>
                    ELSE IF PrintsDetails(r) THEN <<"details">> ELSE <<>>)
    /\ idx' = idx + 1
    /\ UNCHANGED <<pc, argv, files, total_files, total_classes, total_functions,
                   total_imports, folded, exit_code>>
    /\ Idle

\* print_tree returns; generate_summary prints its header and zeroes its totals.
SummaryStart ==
    /\ pc = "print_tree"
    /\ idx = Len(files)
    /\ pc' = "generate_summary"
    /\ idx' = 0
    /\ total_files' = 0
    /\ total_classes' = 0
    /\ total_functions' = 0
    /\ total_imports' = {}
    /\ stdout' = Append(stdout, "summary header")
    /\ UNCHANGED <<argv, files, tree, folded, exit_code>>
    /\ Idle

\* generate_summary with "total_classes = len(classes)" for "+=".
SummaryFileAssign ==
    /\ pc = "generate_summary"
    /\ idx < Len(files)
    /\ LET f == files[idx + 1]
       IN IF ~IsSource(f)
          THEN UNCHANGED <<total_files, total_imports, total_classes,
                           total_functions, folded>>
          ELSE /\ total_files' = total_files + 1
               /\ IF FileTable[f].readable
                  THEN /\ total_imports' = total_imports \cup Range(Extracted[f].imports)
                       /\ total_classes' =
                            Cardinality(DOMAIN Extracted[f].classes)
                       /\ total_functions' =
                            total_functions + Cardinality(Extracted[f].functions)
                       /\ folded' = folded \cup {idx + 1}
                  ELSE UNCHANGED <<total_imports, total_classes, total_functions, folded>>
    /\ idx' = idx + 1
    /\ UNCHANGED <<pc, argv, files, tree, stdout, exit_code>>
    /\ Idle

\* generate_summary: one file of the walk.
SummaryFile ==
    /\ pc = "generate_summary"
    /\ idx < Len(files)
    /\ LET f == files[idx + 1]
       IN IF ~IsSource(f)
          THEN UNCHANGED <<total_files, total_imports, total_classes,
                           total_functions, folded>>
          ELSE /\ total_files' = total_files + 1
               /\ IF FileTable[f].readable
                  THEN /\ total_imports' = total_imports \cup Range(Extracted[f].imports)
                       /\ total_classes' =
                            total_classes + Cardinality(DOMAIN Extracted[f].classes)
                       /\ total_functions' =
                            total_functions + Cardinality(Extracted[f].functions)
                       /\ folded' = folded \cup {idx + 1}
                  ELSE UNCHANGED <<total_imports, total_classes, total_functions, folded>>
    /\ idx' = idx + 1
    /\ UNCHANGED <<pc, argv, files, tree, stdout, exit_code>>
    /\ Idle

\* generate_summary prints the totals and returns; main prints its last lines
\* and returns.
SummaryEnd ==
    /\ pc = "generate_summary"
    /\ idx = Len(files)
    /\ stdout' = stdout \o <<"totals", "analysis complete">>
    /\ exit_code' = 0
    /\ pc' = "exited"
    /\ UNCHANGED <<argv, files, idx, tree, total_files, total_classes,
                   total_functions, total_imports, folded>>
    /\ Idle

\* Names the texts below declare.
N_Foo == <<"F","o","o">>
N_Bar == <<"B","a","r">>
N_bar == <<"b","a","r">>
N_baz == <<"b","a","z">>
N_foo == <<"f","o","o">>
N_f == <<"f">>
N_qux == <<"q","u","x">>
N_m == <<"m">>
N_run == <<"r","u","n">>
N_catch == <<"c","a","t","c","h">>
N_mod1 == <<"m","o","d","1">>
N_mod2 == <<"m","o","d","2">>
N_mod3 == <<"m","o","d","3">>
N_mod4 == <<"m","o","d","4">>

(***************************************************************************)
(* Texts with one class declaration, for _extract_classes and              *)
(* _extract_functions: an optional enclosing block, the header             *)
(* "class Foo {", some items of a class body, and some closing braces.     *)
(***************************************************************************)
Text_Namespace == <<"n","a","m","e","s","p","a","c","e"," ","N"," ","{"," ">>
Text_ClassFoo == <<"c","l","a","s","s"," ","F","o","o"," ","{">>
Text_Close == <<" ","}">>

\* What a class body may hold.  kind tells what the item declares: a member
\* operation ("method"), a direct function declaration ("function"), a name
\* bound to an arrow function ("arrow"), a nested class ("class"), a bodiless
\* signature with a return type ("signature"), or a member operation whose
\* closing brace is missing ("open").
ClassItems == <<
    [kind |-> "method", name |-> N_bar, text |-> <<" ","b","a","r","(",")"," ","{"," ","i","f"," ","(","x",")"," ","{"," ","y","(",")",";"," ","}"," ","}">>],
    [kind |-> "method", name |-> N_baz, text |-> <<" ","b","a","z","(",")"," ","{","}">>],
    [kind |-> "function", name |-> N_foo, text |-> <<" ","f","u","n","c","t","i","o","n"," ","f","o","o","(",")"," ","{"," ","}">>],
    [kind |-> "arrow", name |-> N_f, text |-> <<" ","c","o","n","s","t"," ","f"," ","="," ","(",")"," ","=",">"," ","{"," ","}">>],
    [kind |-> "class", name |-> N_Bar, text |-> <<" ","c","l","a","s","s"," ","B","a","r"," ","{"," ","q","u","x","(",")"," ","{"," ","}"," ","}">>],
    [kind |-> "signature", name |-> N_m, text |-> <<" ","m","(",")",":"," ","v","o","i","d",";">>],
    [kind |-> "open", name |-> N_run, text |-> <<" ","r","u","n","(",")"," ","{">>] >>

MaxItems == 2
MaxCloses == 2

ClassInputs ==
    [wrap : BOOLEAN,
     items : UNION {[1..n -> DOMAIN ClassItems] : n \in 0..MaxItems},
     closes : 0..MaxCloses]

RECURSIVE Repeat(_, _)
Repeat(s, n) == IF n = 0 THEN <<>> ELSE s \o Repeat(s, n - 1)

\* The text of the first n items.
RECURSIVE ItemsText(_, _)
ItemsText(items, n) ==
    IF n = 0 THEN <<>> ELSE ItemsText(items, n - 1) \o ClassItems[items[n]].text

RenderClass(in) ==
    (IF in.wrap THEN Text_Namespace ELSE <<>>) \o Text_ClassFoo
        \o ItemsText(in.items, Len(in.items)) \o Repeat(Text_Close, in.closes)

NotProgram ==
    UNCHANGED <<argv, files, idx, tree, total_files, total_classes, total_functions,
                total_imports, folded, stdout, exit_code>>

\* classes = self._extract_classes(content)
ExtractClasses ==
    /\ pc = "classes"
    /\ scans' = ClassScans(content)
    /\ classes' = ClassDict(scans')
    /\ pc' = "functions"
    /\ UNCHANGED <<input, content, imports, functions, methods>>
    /\ NotProgram

\* functions = self._extract_functions(content)
ExtractFunctions ==
    /\ pc = "functions"
    /\ functions' = _extract_functions(content)
    /\ pc' = "extracted"
    /\ UNCHANGED <<input, content, imports, classes, scans, methods>>
    /\ NotProgram

InitProgramIdle ==
    /\ argv = "none" /\ files = <<>> /\ idx = 0 /\ tree = <<>>
    /\ total_files = 0 /\ total_classes = 0 /\ total_functions = 0
    /\ total_imports = {} /\ folded = {} /\ stdout = <<>> /\ exit_code = -1

InitClasses ==
    /\ pc = "classes"
    /\ input \in ClassInputs
    /\ content = RenderClass(input)
    /\ imports = <<>> /\ classes = <<>> /\ scans = <<>> /\ functions = {} /\ methods = {}
    /\ InitProgramIdle

NextClasses == ExtractClasses \/ ExtractFunctions

SpecClasses == InitClasses /\ [][NextClasses]_vars

(***************************************************************************)
(* Class bodies, for _extract_class_methods: some blocks one after the     *)
(* other.  kind tells what the block is: a member operation, the           *)
(* constructor, or a control construct.                                    *)
(***************************************************************************)
BodyItems == <<
    [kind |-> "operation", name |-> N_bar, text |-> <<" ","b","a","r","(",")"," ","{"," ","}">>],
    [kind |-> "operation", name |-> N_bar, text |-> <<" ","a","s","y","n","c"," ","b","a","r","(","a",")"," ","{"," ","}">>],
    [kind |-> "operation", name |-> N_baz, text |-> <<" ","b","a","z","(","a",")",":"," ","v","o","i","d"," ","{"," ","}">>],
    [kind |-> "constructor", name |-> K_constructor, text |-> <<" ","c","o","n","s","t","r","u","c","t","o","r","(",")"," ","{"," ","}">>],
    [kind |-> "control", name |-> K_if, text |-> <<" ","i","f"," ","(","x",")"," ","{"," ","}">>],
    [kind |-> "control", name |-> K_for, text |-> <<" ","f","o","r"," ","(",";",";",")"," ","{"," ","}">>],
    [kind |-> "control", name |-> K_while, text |-> <<" ","w","h","i","l","e"," ","(","x",")"," ","{"," ","}">>],
    [kind |-> "control", name |-> K_switch, text |-> <<" ","s","w","i","t","c","h"," ","(","x",")"," ","{"," ","}">>],
    [kind |-> "control", name |-> N_catch, text |-> <<" ","t","r","y"," ","{"," ","}"," ","c","a","t","c","h"," ","(","e",")"," ","{"," ","}">>] >>

MaxMembers == 2

BodyInputs == UNION {[1..n -> DOMAIN BodyItems] : n \in 0..MaxMembers}

RECURSIVE RenderBody(_, _)
RenderBody(in, n) ==
    IF n = 0 THEN <<>> ELSE RenderBody(in, n - 1) \o BodyItems[in[n]].text

\* methods = self._extract_class_methods(class_body)
ExtractClassMethods ==
    /\ pc = "methods"
    /\ methods' = _extract_class_methods(content)
    /\ pc' = "extracted"
    /\ UNCHANGED <<input, content, imports, classes, scans, functions>>
    /\ NotProgram

InitMethods ==
    /\ pc = "methods"
    /\ input \in BodyInputs
    /\ content = RenderBody(input, Len(input))
    /\ imports = <<>> /\ classes = <<>> /\ scans = <<>> /\ functions = {} /\ methods = {}
    /\ InitProgramIdle

NextMethods == ExtractClassMethods

SpecMethods == InitMethods /\ [][NextMethods]_vars

(***************************************************************************)
(* Texts of import statements, for _extract_imports.  bound tells whether  *)
(* the statement binds local names or imports for side effects only        *)
(* ("none": the statement is no import).                                   *)
(***************************************************************************)
ImportItems == <<
    [bound |-> "yes", module |-> N_mod1, text |-> <<"i","m","p","o","r","t"," ","{"," ","A"," ","}"," ","f","r","o","m"," ","\"","m","o","d","1","\"",";">>],
    [bound |-> "yes", module |-> N_mod2, text |-> <<"i","m","p","o","r","t"," ","*"," ","a","s"," ","B"," ","f","r","o","m"," ","'","m","o","d","2","'",";">>],
    [bound |-> "yes", module |-> N_mod3, text |-> <<"i","m","p","o","r","t"," ","C"," ","f","r","o","m"," ","\"","m","o","d","3","\"",";">>],
    [bound |-> "no", module |-> N_mod2, text |-> <<"i","m","p","o","r","t"," ","\"","m","o","d","2","\"",";">>],
    [bound |-> "no", module |-> N_mod1, text |-> <<"i","m","p","o","r","t"," ","'","m","o","d","1","'",";">>],
    [bound |-> "no", module |-> N_mod4, text |-> <<"i","m","p","o","r","t"," ","\"","m","o","d","4","\"",";">>],
    [bound |-> "none", module |-> <<>>, text |-> <<"r","u","n","(",")",";">>] >>

MaxImports == 3

ImportInputs == UNION {[1..n -> DOMAIN ImportItems] : n \in 0..MaxImports}

\* The statements, one blank between two.
RECURSIVE RenderImports(_, _)
RenderImports(in, n) ==
    IF n = 0 THEN <<>>
    ELSE RenderImports(in, n - 1) \o (IF n > 1 THEN <<" ">> ELSE <<>>)
            \o ImportItems[in[n]].text

\* imports = self._extract_imports(content)
ExtractImports ==
    /\ pc = "imports"
    /\ imports' = _extract_imports(content)
    /\ pc' = "extracted"
    /\ UNCHANGED <<input, content, classes, scans, functions, methods>>
    /\ NotProgram

InitImports ==
    /\ pc = "imports"
    /\ input \in ImportInputs
    /\ content = RenderImports(input, Len(input))
    /\ imports = <<>> /\ classes = <<>> /\ scans = <<>> /\ functions = {} /\ methods = {}
    /\ InitProgramIdle

NextImports == ExtractImports

SpecImports == InitImports /\ [][NextImports]_vars

Init ==
    /\ pc = "main"
    /\ argv \in ArgKinds
    /\ files \in (IF argv \in {"none", "dir"} THEN FileLists ELSE {<<>>})
    /\ idx = 0 /\ tree = <<>>
    /\ total_files = 0 /\ total_classes = 0 /\ total_functions = 0
    /\ total_imports = {} /\ folded = {} /\ stdout = <<>> /\ exit_code = -1
    /\ input = <<>> /\ content = <<>> /\ imports = <<>> /\ classes = <<>>
    /\ scans = <<>> /\ functions = {} /\ methods = {}

Next == MainStart \/ PrintTreeEntry \/ SummaryStart \/ SummaryFile \/ SummaryEnd

Spec == Init /\ [][Next]_vars

\* The interpreter runs the program on until it exits.
FairSpec == Spec /\ WF_vars(Next)

(***************************************************************************)
(* Properties of _extract_classes and _extract_functions (SpecClasses).    *)
(***************************************************************************)
ClassesDone == pc \in {"functions", "extracted"}

\* The offset of the first "{" at or after offset i, -1 if there is none.
RECURSIVE OpenBrace(_, _)
OpenBrace(text, i) ==
    IF i >= Len(text) THEN -1
    ELSE IF text[i + 1] = "{" THEN i ELSE OpenBrace(text, i + 1)

\* The offset of the "}" that closes a block entered depth levels deep
\* before offset i, -1 if the text ends first.
RECURSIVE CloseOf(_, _, _)
CloseOf(text, i, depth) ==
    IF i >= Len(text) THEN -1
    ELSE IF text[i + 1] = "{" THEN CloseOf(text, i + 1, depth + 1)
    ELSE IF text[i + 1] = "}"
         THEN IF depth = 1 THEN i ELSE CloseOf(text, i + 1, depth - 1)
    ELSE CloseOf(text, i + 1, depth)

\* The closing brace that matches the opening brace of the class whose
\* header ends at class_start.
MatchingClose(text, class_start) ==
    IF OpenBrace(text, class_start) = -1 THEN -1
    ELSE CloseOf(text, OpenBrace(text, class_start) + 1, 1)

\* Offsets [ItemStart, ItemEnd) of the j-th item of the class body.
ItemStart(in, j) ==
    (IF in.wrap THEN Len(Text_Namespace) ELSE 0) + Len(Text_ClassFoo)
        + Len(ItemsText(in.items, j - 1))
ItemEnd(in, j) == ItemStart(in, j) + Len(ClassItems[in.items[j]].text)
ItemKind(in, j) == ClassItems[in.items[j]].kind
ItemName(in, j) == ClassItems[in.items[j]].name

\* The scan sc resolved a body, and item j lies inside it.
InsideBody(in, j, sc) ==
    /\ sc.class_end > sc.class_start
    /\ sc.class_start <= ItemStart(in, j)
    /\ ItemEnd(in, j) <= sc.class_end

\* A single well-formed top-level class whose body holds member operations only.
SingleWellFormedClass ==
    /\ ~input.wrap
    /\ input.closes = 1
    /\ \A j \in 1..Len(input.items) : ItemKind(input, j) = "method"

\* C1 (as claimed): for a text that is one well-formed top-level class
\* declaration, _extract_classes returns a record for the class whose members
\* are exactly the member operations its body declares.
C1_MembersOfWellFormedClass ==
    (pc = "extracted" /\ SingleWellFormedClass) =>
        /\ DOMAIN classes = {N_Foo}
        /\ classes[N_Foo] = {ItemName(input, j) : j \in 1..Len(input.items)}

\* C2 (as claimed): for every class whose opening brace has a matching close,
\* the brace scan stops at that close.
C2_ScanStopsAtOwnClose ==
    ClassesDone =>
        \A k \in 1..Len(scans) :
            MatchingClose(content, scans[k].class_start) # -1 =>
                scans[k].class_end = MatchingClose(content, scans[k].class_start)

\* C3: when the class's opening brace has no matching close before the end of
\* the text, the scan ends at the end of the text with nothing found:
\* class_end stays class_start (an offset of the text), the body is empty, the
\* class has no members, and it is still recorded.
C3_UnclosedGivesEmptyBody ==
    ClassesDone =>
        \A k \in 1..Len(scans) :
            (/\ OpenBrace(content, scans[k].class_start) # -1
             /\ MatchingClose(content, scans[k].class_start) = -1) =>
                /\ scans[k].class_end = scans[k].class_start
                /\ scans[k].class_end <= Len(content)
                /\ scans[k].class_body = <<>>
                /\ scans[k].methods = {}
                /\ scans[k].class_name \in DOMAIN classes
                /\ classes[scans[k].class_name] = {}

\* C3 witness: a truncated class whose body declares a member operation was
\* scanned and recorded with no members.
C3_Witness ==
    /\ pc = "extracted"
    /\ input.closes = 0
    /\ \E j \in 1..Len(input.items) : ItemKind(input, j) = "method"
    /\ \E k \in 1..Len(scans) :
          /\ scans[k].class_name = N_Foo
          /\ MatchingClose(content, scans[k].class_start) = -1
          /\ scans[k].class_body = <<>>
    /\ N_Foo \in DOMAIN classes /\ classes[N_Foo] = {}

NestedClassNames ==
    {ItemName(input, j) : j \in {i \in 1..Len(input.items) : ItemKind(input, i) = "class"}}

\* C9 (as claimed): a class declared inside another class's body is not
\* reported: the mapping has one entry, for the outermost class.
C9_NestedNotReported ==
    ClassesDone => DOMAIN classes = {N_Foo}

\* C9 (amended): every class declaration the class pattern matches has its
\* own entry, a class declared inside another class's body included.
C9_NestedReported ==
    ClassesDone =>
        /\ DOMAIN classes = {N_Foo} \cup NestedClassNames
        /\ Len(scans) = 1 + Cardinality({j \in 1..Len(input.items) : ItemKind(input, j) = "class"})

\* C9 witness: the text nests class Bar in the body of class Foo, and both
\* are entries of the mapping.
C9_Witness ==
    /\ pc = "extracted"
    /\ ~input.wrap /\ input.closes = 1
    /\ \E j \in 1..Len(input.items) : ItemKind(input, j) = "class"
    /\ DOMAIN classes = {N_Foo, N_Bar}

FunctionShaped(in, j) == ItemKind(in, j) \in {"function", "arrow"}

\* The item right before item j is a bodiless signature with a return type.
AfterSignature(in, j) == j > 1 /\ ItemKind(in, j - 1) = "signature"

DirectlyDeclared(in, j, sc) ==
    \E i \in 1..Len(in.items) :
        /\ InsideBody(in, i, sc)
        /\ ItemName(in, i) = ItemName(in, j)
        /\ ItemKind(in, i) = "function"
        /\ ~AfterSignature(in, i)

ReservedNames == {K_constructor, K_if, K_for, K_while, K_switch, N_catch}

\* C8 (as claimed): the members of a class body hold no reserved name, and a
\* body made of control constructs only has no members.
C8_NoReservedMembers ==
    pc = "extracted" =>
        /\ methods \cap ReservedNames = {}
        /\ (\A j \in 1..Len(input) : BodyItems[input[j]].kind = "control") => methods = {}

(***************************************************************************)
(* Properties of _extract_imports (SpecImports).                           *)
(***************************************************************************)
\* The modules of the statements of in that are bound-name imports (bound =
\* "yes") or side-effect-only imports (bound = "no"), in text order.
RECURSIVE ModulesOf(_, _, _)
ModulesOf(in, bound, n) ==
    IF n = 0 THEN <<>>
    ELSE ModulesOf(in, bound, n - 1)
            \o (IF ImportItems[in[n]].bound = bound
                THEN <<ImportItems[in[n]].module>> ELSE <<>>)

\* list followed by the modules of more not already in it, in order.
RECURSIVE FollowedByNew(_, _)
FollowedByNew(list, more) ==
    IF more = <<>> THEN list
    ELSE FollowedByNew(IF \E k \in 1..Len(list) : list[k] = Head(more)
                       THEN list ELSE Append(list, Head(more)), Tail(more))

RECURSIVE SumOver(_, _, _)
SumOver(count(_), recs, n) ==
    IF n = 0 THEN 0 ELSE SumOver(count, recs, n - 1) + count(recs[n])

\* What one file's record of the print_tree pass holds.
ClassCount(r) == IF r.status = "ok" THEN Cardinality(DOMAIN r.classes) ELSE 0
FunctionCount(r) == IF r.status = "ok" THEN Cardinality(r.functions) ELSE 0
ImportSet(r) == IF r.status = "ok" THEN Range(r.imports) ELSE {}

\* C5: once generate_summary has folded the files, the total class count is
\* the sum of the numbers of classes of the files' records, the total
\* function count the sum of their function counts, and the unique imports
\* the union of their import strings.
C5_SummaryTotals ==
    (pc = "exited" /\ exit_code = 0) =>
        /\ total_classes = SumOver(ClassCount, tree, Len(tree))
        /\ total_functions = SumOver(FunctionCount, tree, Len(tree))
        /\ total_imports = UNION {ImportSet(tree[k]) : k \in 1..Len(tree)}

\* C5 witness: two files with one class each, both importing "mod2", gave a
\* class total of 2 and two unique imports.
C5_Witness ==
    /\ pc = "exited"
    /\ files = <<1, 2>>
    /\ ClassCount(tree[1]) = 1 /\ ClassCount(tree[2]) = 1
    /\ total_classes = 2
    /\ Len(tree[1].imports) + Len(tree[2].imports) = 3
    /\ Cardinality(total_imports) = 2

Printed(what) == \E k \in 1..Len(stdout) : stdout[k] = what

\* What main does with the path argument, the status of an invalid path
\* being code.
PathHandling(code) ==
    pc = "exited" =>
        /\ argv \in {"missing", "file"} =>
              /\ exit_code = code
              /\ Len(stdout) = 1
              /\ ~Printed("tree header") /\ ~Printed("totals")
        /\ argv \in {"none", "dir"} =>
              /\ exit_code = 0
              /\ Printed("tree header") /\ Printed("totals")

\* C6 (as claimed): a path that does not exist or is no directory makes main
\* print a message and exit with status 2 without running the tree or the
\* summary; a directory gets the tree and the summary and status 0.
C6_InvalidPathExits2 == PathHandling(2)

\* C6 (amended): the same, with exit status 1 for the invalid path.
C6_InvalidPathExits1 == PathHandling(1)

\* C6 witness: main has exited on a path that is no directory.
C6_Witness ==
    /\ pc = "exited"
    /\ argv = "file"
    /\ exit_code = 1
    /\ stdout = <<"error: not a directory">>

\* Every file was handled by both passes, a failure staying with its file.
AllFilesHandled ==
    /\ Len(tree) = Len(files)
    /\ total_files = Cardinality({k \in 1..Len(files) : IsSource(files[k])})
    /\ \A k \in 1..Len(files) :
          IF ~IsSource(files[k]) THEN tree[k].status = "not analyzed" /\ k \notin folded
          ELSE IF FileTable[files[k]].readable
               THEN /\ tree[k].status = "ok"
                    /\ DOMAIN tree[k].classes = DOMAIN _extract_classes(FileTable[files[k]].text)
                    /\ k \in folded
               ELSE tree[k].status = "error" /\ k \notin folded

\* C7: a pass over a directory always completes with exit status 0, every
\* file handled by print_tree and by generate_summary, whatever files are
\* truncated or unreadable.
C7_PassCompletes ==
    (pc = "main" /\ argv \in {"none", "dir"})
        ~> (pc = "exited" /\ exit_code = 0 /\ AllFilesHandled)

\* C7 witness: an unreadable file and a truncated file came before a file
\* that both passes analyzed, and the process exited with status 0.
C7_Witness ==
    /\ pc = "exited" /\ exit_code = 0
    /\ files = <<3, 2, 1>>
    /\ tree[1].status = "error"
    /\ tree[2].status = "ok" /\ tree[2].classes[N_Bar] = {}
    /\ tree[3].status = "ok" /\ 3 \in folded
====
